---- MODULE Spec2Model ----
(***************************************************************************)
(* State-machine model of the era-5g-client orchestration layer:          *)
(* NetAppClient (client.py) on top of NetAppClientBase (client_base.py),   *)
(* the middleware it talks to over HTTP, the Socket.IO connection to the   *)
(* network application, and the readiness monitor                          *)
(* (MiddlewareResourceChecker) that polls the middleware in a background   *)
(* thread.                                                                  *)
(*                                                                         *)
(* One foreground caller drives the client; `pc` is the position of the    *)
(* call in progress ("idle" between calls).  The monitor thread takes      *)
(* steps of its own (MonitorTick).                                         *)
(***************************************************************************)
EXTENDS Integers, Sequences, FiniteSets, TLC

\* ------------------------------------------------------------------ bounds
\* calls the foreground caller makes on one client
MaxCalls == 4
\* plan ids the middleware can hand out
MaxPlans == 2
\* physical connection attempts a register call that retries without a time
\* limit is followed through
MaxAttempts == 3
\* largest timeout, in seconds, given to NetAppClientBase.register or to the
\* monitor's wait
MaxTimeout == 2
\* polling ticks of a monitor whose answers are logged
MaxPolls == 3

\* ------------------------------------------------------------- python values
\* Python's None
None == "NONE"
\* the empty string returned for an empty ActionPlanId
EmptyPlan == ""
PlanIds == {"p" \o ToString(i) : i \in 1..MaxPlans}
\* every key delete_all_resources may build a DELETE url from
PlanKeys == PlanIds \cup {EmptyPlan}
\* the bearer token of a successful login
Token == "abc"
\* the url the middleware reports for a running network application
Url == "h"
\* port of the netapp's server
NETAPP_PORT == 5896
\* Python's True and False where they travel as data
PyBool(b) == IF b THEN "True" ELSE "False"

\* ----------------------------------------------------------------- exceptions
NoExc == [kind |-> "none", msg |-> ""]
Exc(k, m) == [kind |-> k, msg |-> m]

\* Exception classes of era_5g_client.exceptions: three unrelated kinds, each
\* a direct subclass of Exception (FailedToInitialize is not a FailedToConnect).
IsSubclass(k, base) == k = base

\* `except (FailedToConnect, NetAppNotReady) as ex` of run_task
RunTaskCatches(k) == IsSubclass(k, "FailedToConnect") \/ IsSubclass(k, "NetAppNotReady")

\* ------------------------------------------------------------------ run modes
DO_NOTHING == "DO_NOTHING"
WAIT == "WAIT"
WAIT_AND_REGISTER == "WAIT_AND_REGISTER"
RunTaskMode == {DO_NOTHING, WAIT, WAIT_AND_REGISTER}

VARIABLES
  middleware_info,   \* None or the MiddlewareInfo given to connect_to_middleware
  token,             \* None or the session token
  action_plan_id,    \* None, EmptyPlan or a plan id
  resource_checker,  \* 0 (None) or the index in `checkers` of the current monitor
  netapp_location,   \* None or the NetAppLocation loaded from the monitor
  netapp_address,    \* None or the address the base client registered with
  sio,               \* the Socket.IO client: "disconnected" | "connected"
  registered,        \* the INIT command of the current connection succeeded
  checkers,          \* every MiddlewareResourceChecker created so far
  provisioned,       \* middleware: plans currently provisioned
  issued,            \* middleware: plan ids ever returned to the client
  deleteReqs,        \* middleware: DELETE requests received, per plan key
  planReqs,          \* middleware: the bearer tokens of the Task/Plan requests received
  pc,                \* position of the foreground call
  caller,            \* "run_task" | "register" | "base_register" | "wait" | "none": the
                     \* call the foreground is in
  call,              \* arguments of the call in progress
  base,              \* arguments NetAppClientBase.register was entered with
  attempts,          \* connection attempts of the register call in progress
  elapsed,           \* seconds since the start of the register or wait call in progress
  exc,               \* the exception in flight
  steps,             \* steps the run_task call in progress has performed
  run,               \* bookkeeping of the run_task call in progress or last ended
  init_cmd,          \* the last INIT control command sent and its result
  result,            \* how the last finished call ended
  calls              \* calls made so far

vars == <<middleware_info, token, action_plan_id, resource_checker, netapp_location,
          netapp_address, sio, registered, checkers, provisioned, issued, deleteReqs,
          planReqs, pc, caller, call, base, attempts, elapsed, exc, steps, run,
          init_cmd, result, calls>>

clientVars == <<middleware_info, token, action_plan_id, resource_checker, netapp_location,
                netapp_address>>
sioVars == <<sio, registered>>
mwVars == <<provisioned, issued, deleteReqs, planReqs>>
regVars == <<base, attempts, elapsed, init_cmd>>
\* locals of the call in progress, dropped when it ends
frameVars == <<exc, result, caller, call, base, attempts, elapsed>>

NoCall == [op |-> "none", mode |-> DO_NOTHING, gstreamer |-> FALSE, ws_data |-> FALSE,
           args |-> None, timeout |-> 0]
NoBase == [args |-> None, wait_until_available |-> FALSE, timeout_is_int |-> TRUE,
           wait_timeout |-> -1, callbacks |-> 0]
\* run_task bookkeeping: the mode, the plan and monitor this call obtained, the
\* DELETE requests it issued, the exception first raised inside the try block,
\* the one that reached the caller, and "none" | "running" | "returned" | "raised"
NoRun == [mode |-> DO_NOTHING, plan |-> None, deletes |-> 0, checker |-> 0,
          raised |-> NoExc, propagated |-> NoExc, ended |-> "none"]
\* the INIT command last sent: its data, its result, and how many commands
\* are sent and still without an outcome
NoInit == [data |-> None, answered |-> FALSE, success |-> FALSE, message |-> "",
           outstanding |-> 0]
NoResult == [op |-> "none", status |-> "none", exc |-> NoExc, repeat |-> FALSE]

Returned(op) == [op |-> op, status |-> "returned", exc |-> NoExc, repeat |-> FALSE]
Raised(op, e) == [op |-> op, status |-> "raised", exc |-> e, repeat |-> FALSE]

\* NetAppClient.__init__ / NetAppClientBase.__init__
Init ==
  /\ middleware_info = None
  /\ token = None
  /\ action_plan_id = None
  /\ resource_checker = 0
  /\ netapp_location = None
  /\ netapp_address = None
  /\ sio = "disconnected"
  /\ registered = FALSE
  /\ checkers = <<>>
  /\ provisioned = {}
  /\ issued = {}
  /\ deleteReqs = [p \in PlanKeys |-> 0]
  /\ planReqs = {}
  /\ pc = "idle"
  /\ caller = "none"
  /\ call = NoCall
  /\ base = NoBase
  /\ attempts = 0
  /\ elapsed = 0
  /\ exc = NoExc
  /\ steps = <<>>
  /\ run = NoRun
  /\ init_cmd = NoInit
  /\ result = NoResult
  /\ calls = 0

\* the foreground caller may start another call
CanCall == pc = "idle" /\ calls < MaxCalls

\* a call other than run_task begins: the bookkeeping of the last run_task goes
NewCall ==
  /\ calls' = calls + 1
  /\ steps' = <<>>
  /\ run' = NoRun

\* ---------------------------------------------------------------- login
\* What POST Login can answer: the transport fails, or a JSON body that
\* carries an "errors" payload, lacks "token", or carries a token that is a
\* non-empty string, an empty string or not a string.
LoginResponses ==
  {[transport |-> "fail", errors |-> FALSE, has_token |-> FALSE, token_kind |-> "str"]}
  \cup [transport : {"ok"}, errors : BOOLEAN, has_token : BOOLEAN,
        token_kind : {"str", "empty", "nonstr"}]

\* gateway_login: the token returned, or the exception raised
gateway_login(r) ==
  IF r.transport = "fail" THEN [token |-> None, exc |-> Exc("ConnectionError", "")]
  ELSE IF r.errors THEN [token |-> None, exc |-> Exc("FailedToConnect", "errors")]
  ELSE IF ~r.has_token
    THEN [token |-> None, exc |-> Exc("FailedToConnect", "the response does not contain token")]
  ELSE IF r.token_kind # "str"
    THEN [token |-> None, exc |-> Exc("FailedToConnect", "Invalid token.")]
  ELSE [token |-> Token, exc |-> NoExc]

\* connect_to_middleware: middleware_info is stored first, the token only
\* when gateway_login returns
ConnectToMiddleware ==
  /\ CanCall
  /\ \E r \in LoginResponses :
       LET got == gateway_login(r) IN
       /\ middleware_info' = "mw"
       /\ token' = IF got.exc = NoExc THEN got.token ELSE token
       /\ result' = IF got.exc = NoExc THEN Returned("connect_to_middleware")
                    ELSE Raised("connect_to_middleware", got.exc)
  /\ NewCall
  /\ UNCHANGED <<action_plan_id, resource_checker, netapp_location, netapp_address>>
  /\ UNCHANGED <<sioVars, checkers, mwVars, regVars>>
  /\ UNCHANGED <<pc, caller, call, exc>>

\* ---------------------------------------------------------------- cleanup
\* how requests.delete can end: a response arrives, or the call raises
DeleteOutcomes == {"reached", "HTTPError", "ConnectionError"}

CleanupMsg == "Error, could not get delete the resource, revisit the log files for more details."

\* delete_all_resources: the early return of line 269 and the guard of line 274
DeleteSends == token # None /\ action_plan_id # None /\ middleware_info # None

\* delete_all_resources: the DELETE request and what the middleware does with it
DeleteEffect(o) ==
  /\ deleteReqs' = IF DeleteSends THEN [deleteReqs EXCEPT ![action_plan_id] = @ + 1]
                   ELSE deleteReqs
  /\ provisioned' = IF DeleteSends /\ o = "reached" THEN provisioned \ {action_plan_id}
                    ELSE provisioned

\* variant: a response that is not ok (the plan is gone) raises
DeleteExc_RaisesOnNotFound(o) ==
  IF DeleteSends /\ o = "HTTPError" THEN Exc("FailedToConnect", CleanupMsg)
  ELSE IF DeleteSends /\ o = "ConnectionError" THEN Exc("ConnectionError", "")
  ELSE IF DeleteSends /\ action_plan_id \notin provisioned THEN Exc("FailedToConnect", "not found")
  ELSE NoExc

\* delete_all_resources: the exception it ends with (NoExc when it returns)
DeleteExc(o) ==
  IF DeleteSends /\ o = "HTTPError" THEN Exc("FailedToConnect", CleanupMsg)
  ELSE IF DeleteSends /\ o = "ConnectionError" THEN Exc("ConnectionError", "")
  ELSE NoExc

\* DELETE requests a call in progress has issued, for the `run` bookkeeping
CountDelete(r) == [r EXCEPT !.deletes = @ + (IF DeleteSends THEN 1 ELSE 0)]

\* ---------------------------------------------------------------- call frames
Finish(r) ==
  /\ pc' = "idle"
  /\ result' = r
  /\ caller' = "none"
  /\ call' = NoCall
  /\ exc' = NoExc
  /\ base' = NoBase
  /\ attempts' = 0
  /\ elapsed' = 0

\* an exception raised inside the try block of run_task; r is the bookkeeping
\* of the step that raised
RunTaskThrow(e, r) ==
  IF RunTaskCatches(e.kind)
  THEN /\ pc' = "rt_except"
       /\ exc' = e
       /\ run' = [r EXCEPT !.raised = e]
       /\ UNCHANGED <<result, caller, call, base, attempts, elapsed>>
  ELSE /\ Finish(Raised("run_task", e))
       /\ run' = [r EXCEPT !.raised = e, !.propagated = e, !.ended = "raised"]

RunTaskReturn(r) ==
  /\ Finish(Returned("run_task"))
  /\ run' = [r EXCEPT !.ended = "returned"]

\* an exception raised inside register, entered from run_task or by the caller
RegisterThrow(e, r) ==
  IF caller = "run_task" THEN RunTaskThrow(e, r)
  ELSE /\ Finish(Raised("register", e))
       /\ run' = r

RegisterReturn(r) ==
  IF caller = "run_task" THEN RunTaskReturn(r)
  ELSE /\ Finish(Returned("register"))
       /\ run' = r

\* the caller calls delete_all_resources
DeleteAllResources ==
  /\ CanCall
  /\ \E o \in DeleteOutcomes :
       /\ DeleteEffect(o)
       /\ result' = IF DeleteExc(o) = NoExc
                    THEN [Returned("delete_all_resources") EXCEPT
                            !.repeat = (result = Returned("delete_all_resources"))]
                    ELSE Raised("delete_all_resources", DeleteExc(o))
  /\ NewCall
  /\ UNCHANGED <<clientVars, sioVars, checkers, issued, planReqs, regVars>>
  /\ UNCHANGED <<pc, caller, call, exc>>

\* ---------------------------------------------------------------- monitor
\* MiddlewareResourceChecker(token, action_plan_id, ...), not yet started
NewChecker(t, p) ==
  [token |-> t, plan |-> p, state |-> "Pending", started |-> FALSE, stopped |-> FALSE,
   url |-> None, polls |-> <<>>]

\* MiddlewareResourceChecker.start
checker_start(c) == [c EXCEPT !.started = TRUE]

\* MiddlewareResourceChecker.stop
checker_stop(c) == [c EXCEPT !.stopped = TRUE]

\* MiddlewareResourceChecker.is_ready
is_ready(c) == c.state = "Ready"

\* variant: stop() does not wake the wait
wait_until_resource_ready_IgnoresStop(c) ==
  IF c.state = "Ready" THEN "return"
  ELSE IF c.state = "Failed" THEN "raise"
  ELSE "block"

\* variant: the wait ends normally on any terminal state
wait_until_resource_ready_AnyTerminal(c) ==
  IF c.state \in {"Ready", "Failed"} THEN "return"
  ELSE IF c.stopped THEN "raise"
  ELSE "block"

\* MiddlewareResourceChecker.wait_until_resource_ready: "block", "return" or "raise"
wait_until_resource_ready(c) ==
  IF c.state = "Ready" THEN "return"
  ELSE IF c.state = "Failed" \/ c.stopped THEN "raise"
  ELSE "block"

\* what one poll of the plan's status can show
PollResults == {"Pending", "Ready", "Failed", "TransportError"}

\* variant: a poll that cannot reach the middleware fails the monitor
checker_tick_ErrorFails(c, poll) ==
  IF c.state # "Pending" THEN c
  ELSE IF poll = "Ready" THEN [c EXCEPT !.state = "Ready", !.url = Url]
  ELSE IF poll \in {"Failed", "TransportError"} THEN [c EXCEPT !.state = "Failed"]
  ELSE c

\* variant: every answer overwrites the state
checker_tick_Overwrites(c, poll) ==
  IF poll = "Ready" THEN [c EXCEPT !.state = "Ready", !.url = Url]
  ELSE IF poll = "Failed" THEN [c EXCEPT !.state = "Failed"]
  ELSE IF poll = "Pending" THEN [c EXCEPT !.state = "Pending"]
  ELSE c

\* MiddlewareResourceChecker.run, one polling tick: Ready and Failed are
\* terminal; a transport error is a tick that learned nothing
checker_tick(c, poll) ==
  IF c.state # "Pending" THEN c
  ELSE IF poll = "Ready" THEN [c EXCEPT !.state = "Ready", !.url = Url]
  ELSE IF poll = "Failed" THEN [c EXCEPT !.state = "Failed"]
  ELSE c

\* MiddlewareResourceChecker.run: the loop polls from start() on; only a
\* failed status or stop() ends it
checker_polls(c) == c.started /\ ~c.stopped /\ c.state # "Failed"

\* the monitor thread takes one polling tick
MonitorTick ==
  /\ \E i \in 1..Len(checkers), poll \in PollResults :
       /\ checker_polls(checkers[i])
       /\ checkers' = [checkers EXCEPT ![i] = checker_tick(@, poll)]
  /\ UNCHANGED <<clientVars, sioVars, mwVars, regVars>>
  /\ UNCHANGED <<pc, caller, call, exc, steps, run, result, calls>>

\* resource_checker is set and reports ready
CheckerReady == resource_checker # 0 /\ is_ready(checkers[resource_checker])

\* ---------------------------------------------------------------- run_task
ArgsValues == {None, "cfg"}

\* the id of the next plan the middleware creates (none once MaxPlans are out)
FreshPlans == {p \in PlanIds : p = "p" \o ToString(Cardinality(issued) + 1)}

\* What POST Task/Plan can answer.  status 0 stands for a body without a
\* "statusCode" field.  The middleware returns a plan id (possibly an empty
\* one) only with a valid bearer token and without an error status.
PlanResponses ==
  {[transport |-> "fail", is_dict |-> FALSE, status |-> 0, has_plan |-> FALSE, plan |-> EmptyPlan]}
  \cup {[transport |-> "ok", is_dict |-> FALSE, status |-> 0, has_plan |-> FALSE, plan |-> EmptyPlan]}
  \cup {[transport |-> "ok", is_dict |-> TRUE, status |-> s, has_plan |-> FALSE, plan |-> EmptyPlan] :
          s \in {0, 400, 404, 500}}
  \cup {[transport |-> "ok", is_dict |-> TRUE, status |-> 0, has_plan |-> TRUE, plan |-> p] :
          p \in IF token = None THEN {} ELSE FreshPlans \cup {EmptyPlan}}

\* variant: the KeyError of a missing "ActionPlanId" is not caught
gateway_get_plan_KeyErrorEscapes(r) ==
  IF r.transport = "fail" THEN [plan |-> None, exc |-> Exc("ConnectionError", "")]
  ELSE IF ~r.is_dict THEN [plan |-> None, exc |-> Exc("FailedToConnect", "Invalid response.")]
  ELSE IF r.status = 500 \/ r.status = 400
    THEN [plan |-> None, exc |-> Exc("FailedToConnect", "response")]
  ELSE IF ~r.has_plan THEN [plan |-> None, exc |-> Exc("KeyError", "ActionPlanId")]
  ELSE [plan |-> r.plan, exc |-> NoExc]

\* gateway_get_plan: the plan id returned, or the exception raised
gateway_get_plan(r) ==
  IF r.transport = "fail" THEN [plan |-> None, exc |-> Exc("ConnectionError", "")]
  ELSE IF ~r.is_dict THEN [plan |-> None, exc |-> Exc("FailedToConnect", "Invalid response.")]
  ELSE IF r.status = 500 \/ r.status = 400
    THEN [plan |-> None, exc |-> Exc("FailedToConnect", "response")]
  ELSE IF ~r.has_plan
    THEN [plan |-> None, exc |-> Exc("FailedToConnect", "Could not get the plan")]
  ELSE [plan |-> r.plan, exc |-> NoExc]

\* variant: `if self.action_plan_id is None`
PlanMissing_NoneOnly(p) == p = None

\* `if not self.action_plan_id`
PlanMissing(p) == p = None \/ p = EmptyPlan

\* run_task is called: `assert self.middleware_info`, then the try block
RunTaskCall ==
  /\ CanCall
  /\ calls' = calls + 1
  /\ \E m \in RunTaskMode, g \in BOOLEAN, w \in BOOLEAN, a \in ArgsValues :
       IF middleware_info = None
       THEN /\ Finish(Raised("run_task", Exc("AssertionError", "")))
            /\ steps' = <<>>
            /\ run' = NoRun
       ELSE /\ pc' = "rt_plan"
            /\ call' = [op |-> "run_task", mode |-> m, gstreamer |-> g, ws_data |-> w,
                        args |-> a, timeout |-> 0]
            /\ caller' = "run_task"
            /\ steps' = <<>>
            /\ run' = [NoRun EXCEPT !.mode = m, !.ended = "running"]
            /\ result' = NoResult
            /\ UNCHANGED <<exc, base, attempts, elapsed>>
  /\ UNCHANGED <<clientVars, sioVars, checkers, mwVars, init_cmd>>

\* lines 134-139: request the plan, store it, refuse an empty one
RtPlan ==
  /\ pc = "rt_plan"
  /\ \E r \in PlanResponses :
       LET got == gateway_get_plan(r) IN
       /\ planReqs' = IF r.transport = "ok" THEN planReqs \cup {token} ELSE planReqs
       /\ steps' = Append(steps, "plan")
       /\ IF got.exc # NoExc
          THEN /\ RunTaskThrow(got.exc, run)
               /\ UNCHANGED <<action_plan_id, issued, provisioned>>
          ELSE /\ action_plan_id' = got.plan
               /\ issued' = IF got.plan \in PlanIds THEN issued \cup {got.plan} ELSE issued
               /\ provisioned' = IF got.plan \in PlanIds THEN provisioned \cup {got.plan}
                                 ELSE provisioned
               /\ IF PlanMissing(got.plan)
                  THEN RunTaskThrow(Exc("FailedToConnect", "Failed to obtain action plan id..."),
                                    run)
                  ELSE /\ pc' = "rt_monitor"
                       /\ run' = [run EXCEPT !.plan = got.plan]
                       /\ UNCHANGED frameVars
  /\ UNCHANGED <<middleware_info, token, resource_checker, netapp_location, netapp_address>>
  /\ UNCHANGED <<sioVars, checkers, deleteReqs, init_cmd, calls>>

\* `mode in [RunTaskMode.WAIT, RunTaskMode.WAIT_AND_REGISTER]`
ModeWaits(m) == m \in {WAIT, WAIT_AND_REGISTER}

\* variant: every waiting mode registers
ModeRegisters_AnyWait(m) == m \in {WAIT, WAIT_AND_REGISTER}

\* `mode == RunTaskMode.WAIT_AND_REGISTER`
ModeRegisters(m) == m = WAIT_AND_REGISTER

\* lines 141-149: create the monitor for the plan and start it
RtMonitor ==
  /\ pc = "rt_monitor"
  /\ checkers' = Append(checkers, checker_start(NewChecker(token, action_plan_id)))
  /\ resource_checker' = Len(checkers) + 1
  /\ steps' = Append(steps, "monitor")
  /\ IF ModeWaits(call.mode)
     THEN /\ pc' = "rt_wait"
          /\ run' = [run EXCEPT !.checker = Len(checkers) + 1]
          /\ UNCHANGED frameVars
     ELSE RunTaskReturn([run EXCEPT !.checker = Len(checkers) + 1])
  /\ UNCHANGED <<middleware_info, token, action_plan_id, netapp_location, netapp_address>>
  /\ UNCHANGED <<sioVars, mwVars, init_cmd, calls>>

\* line 150, wait_until_netapp_ready: blocks while the monitor is Pending
RtWait ==
  /\ pc = "rt_wait"
  /\ IF resource_checker = 0
     THEN RunTaskThrow(Exc("FailedToConnect", "Not connected to middleware."), run)
     ELSE /\ wait_until_resource_ready(checkers[resource_checker]) # "block"
          /\ IF wait_until_resource_ready(checkers[resource_checker]) = "return"
             THEN /\ pc' = "rt_load"
                  /\ UNCHANGED <<frameVars, run>>
             ELSE RunTaskThrow(Exc("NetAppNotReady", "wait"), run)
  /\ steps' = Append(steps, "wait")
  /\ UNCHANGED <<clientVars, sioVars, checkers, mwVars, init_cmd, calls>>

\* NetAppLocation(address, port), written address:port
NetAppLocation(address, port) == address \o ":" \o ToString(port)

\* variant: only a missing monitor is refused
LoadNotReady_OnlyNone == resource_checker = 0

\* load_netapp_uri, line 216:
\* `if not (self.resource_checker and self.resource_checker.is_ready())`
LoadNotReady == ~CheckerReady

\* the caller calls load_netapp_uri
LoadNetappUri ==
  /\ CanCall
  /\ NewCall
  /\ IF LoadNotReady
     THEN /\ result' = Raised("load_netapp_uri", Exc("NetAppNotReady", ""))
          /\ UNCHANGED netapp_location
     ELSE /\ result' = Returned("load_netapp_uri")
          /\ netapp_location' = NetAppLocation(checkers[resource_checker].url, NETAPP_PORT)
  /\ UNCHANGED <<middleware_info, token, action_plan_id, resource_checker, netapp_address>>
  /\ UNCHANGED <<sioVars, checkers, mwVars, regVars, pc, caller, call, exc>>

\* lines 151-155, load_netapp_uri and the choice to register
RtLoad ==
  /\ pc = "rt_load"
  /\ steps' = Append(steps, "load")
  /\ IF LoadNotReady
     THEN /\ RunTaskThrow(Exc("NetAppNotReady", ""), run)
          /\ UNCHANGED netapp_location
     ELSE /\ netapp_location' = NetAppLocation(checkers[resource_checker].url, NETAPP_PORT)
          /\ IF ModeRegisters(call.mode)
             THEN /\ pc' = "reg_check"
                  /\ UNCHANGED <<frameVars, run>>
             ELSE RunTaskReturn(run)
  /\ UNCHANGED <<middleware_info, token, action_plan_id, resource_checker, netapp_address>>
  /\ UNCHANGED <<sioVars, checkers, mwVars, init_cmd, calls>>

\* lines 156-159: the except clause calls delete_all_resources and re-raises;
\* an exception raised by delete_all_resources leaves the handler instead
RtExcept ==
  /\ pc = "rt_except"
  /\ \E o \in DeleteOutcomes :
       /\ DeleteEffect(o)
       /\ Finish(Raised("run_task", IF DeleteExc(o) = NoExc THEN exc ELSE DeleteExc(o)))
       /\ run' = [CountDelete(run) EXCEPT
                    !.propagated = IF DeleteExc(o) = NoExc THEN exc ELSE DeleteExc(o),
                    !.ended = "raised"]
  /\ UNCHANGED <<clientVars, sioVars, checkers, issued, planReqs, init_cmd, steps, calls>>

\* ---------------------------------------------------------------- disconnect
\* NetAppClientBase.__init__: `stats: bool = False`, which NetAppClient keeps
stats == FALSE

\* variant: closing a connection that is not open raises
BaseDisconnectExc_RaisesWhenClosed ==
  IF sio = "disconnected" THEN Exc("BadNamespaceError", "") ELSE NoExc

\* NetAppClientBase.disconnect: close the Socket.IO connection; with stats on,
\* the statistics of an empty size list raise
BaseDisconnectExc == IF stats THEN Exc("StatisticsError", "") ELSE NoExc

\* NetAppClientBase.disconnect on a client of the base class: nothing but the
\* connection is touched
BaseDisconnectEffect ==
  /\ sio' = "disconnected"
  /\ registered' = FALSE
  /\ UNCHANGED <<checkers, deleteReqs, provisioned>>

\* variant: delete_all_resources nested under `if self.resource_checker is not None`
DisconnectEffect_DeleteOnlyWithChecker(o) ==
  /\ sio' = "disconnected"
  /\ registered' = FALSE
  /\ checkers' = IF resource_checker # 0
                 THEN [checkers EXCEPT ![resource_checker] = checker_stop(@)]
                 ELSE checkers
  /\ IF resource_checker # 0 THEN DeleteEffect(o)
     ELSE UNCHANGED <<deleteReqs, provisioned>>

\* NetAppClient.disconnect: the connection is closed, the monitor (if any) is
\* stopped, then delete_all_resources runs
DisconnectEffect(o) ==
  /\ sio' = "disconnected"
  /\ registered' = FALSE
  /\ checkers' = IF BaseDisconnectExc = NoExc /\ resource_checker # 0
                 THEN [checkers EXCEPT ![resource_checker] = checker_stop(@)]
                 ELSE checkers
  /\ IF BaseDisconnectExc = NoExc THEN DeleteEffect(o)
     ELSE UNCHANGED <<deleteReqs, provisioned>>

\* NetAppClient.disconnect: the exception it ends with (NoExc when it returns)
DisconnectExc(o) == IF BaseDisconnectExc # NoExc THEN BaseDisconnectExc ELSE DeleteExc(o)

\* the caller calls disconnect
Disconnect ==
  /\ CanCall
  /\ \E o \in DeleteOutcomes :
       /\ DisconnectEffect(o)
       /\ result' = IF DisconnectExc(o) = NoExc
                    THEN [Returned("disconnect") EXCEPT
                            !.repeat = (result.op = "disconnect" /\ result.status = "returned")]
                    ELSE Raised("disconnect", DisconnectExc(o))
  /\ NewCall
  /\ UNCHANGED <<clientVars, issued, planReqs, regVars>>
  /\ UNCHANGED <<pc, caller, call, exc>>

\* ---------------------------------------------------------------- register
\* the caller calls NetAppClient.register with a location of its own
RegisterCall ==
  /\ CanCall
  /\ NewCall
  /\ \E g \in BOOLEAN, w \in BOOLEAN, a \in ArgsValues :
       call' = [op |-> "register", mode |-> DO_NOTHING, gstreamer |-> g, ws_data |-> w,
                args |-> a, timeout |-> 0]
  /\ caller' = "register"
  /\ pc' = "reg_check"
  /\ result' = NoResult
  /\ UNCHANGED <<clientVars, sioVars, checkers, mwVars, regVars, exc>>

\* NetAppClient.register, line 193: super().register(netapp_location, gstreamer,
\* ws_data, args) binds the positional parameters of NetAppClientBase.register
\* (netapp_address, args, wait_until_available, wait_timeout)
BaseArgs(c) ==
  [args |-> PyBool(c.gstreamer), wait_until_available |-> c.ws_data, timeout_is_int |-> FALSE,
   wait_timeout |-> 0, callbacks |-> 0]

\* variant: the readiness check is left out
RegisterNotReady_Unchecked == FALSE

\* NetAppClient.register, lines 190-191: `if not self.resource_checker.is_ready()`
RegisterNotReady == ~is_ready(checkers[resource_checker])

\* NetAppClient.register, lines 187-193: refuse unless the monitor is ready,
\* then enter NetAppClientBase.register (lines 138-140)
RegCheck ==
  /\ pc = "reg_check"
  /\ IF resource_checker = 0
     THEN /\ RegisterThrow(Exc("NetAppNotReady", "Not connected to the middleware."), run)
          /\ UNCHANGED netapp_address
     ELSE IF RegisterNotReady
     THEN /\ RegisterThrow(Exc("NetAppNotReady", "Not ready."), run)
          /\ UNCHANGED netapp_address
     ELSE /\ netapp_address' = NetAppLocation(Url, NETAPP_PORT)
          /\ base' = BaseArgs(call)
          /\ attempts' = 0
          /\ elapsed' = 0
          /\ pc' = "connect"
          /\ UNCHANGED <<exc, result, caller, call, run>>
  /\ UNCHANGED <<middleware_info, token, action_plan_id, resource_checker, netapp_location>>
  /\ UNCHANGED <<sioVars, checkers, mwVars, init_cmd, steps, calls>>

\* how one self._sio.connect can end.  A client that is already connected
\* refuses to connect again; a failed attempt may fire the connect_error
\* handlers of both namespaces before ConnectionError is raised.
ConnectOutcomes ==
  IF sio = "connected" THEN {[ok |-> FALSE, callbacks |-> 0]}
  ELSE {[ok |-> TRUE, callbacks |-> 0], [ok |-> FALSE, callbacks |-> 0],
        [ok |-> FALSE, callbacks |-> 2]}

\* the retry loop of lines 141-155 has no way out but a successful attempt
RetriesForever(b) == b.wait_until_available /\ b.timeout_is_int /\ b.wait_timeout <= 0

\* attempts one register call is followed through: a loop with a time limit
\* ends by itself within wait_timeout + 2 attempts, one second of sleep each
AttemptCap(b) == IF RetriesForever(b) THEN MaxAttempts ELSE MaxTimeout + 2

\* seconds a failed attempt can take; the clock is read only by a retry loop
\* with a numeric wait_timeout
AttemptSeconds == IF base.wait_until_available /\ base.timeout_is_int THEN 0..1 ELSE {0}

\* lines 141-149: one connection attempt
Connect ==
  /\ pc = "connect"
  /\ attempts < AttemptCap(base)
  /\ \E c \in ConnectOutcomes, d \in AttemptSeconds :
       /\ attempts' = attempts + 1
       /\ IF c.ok
          THEN /\ sio' = "connected"
               /\ pc' = "init"
               /\ UNCHANGED <<elapsed, base>>
          ELSE /\ elapsed' = elapsed + d
               /\ base' = [base EXCEPT !.callbacks = c.callbacks]
               /\ pc' = "connect_error"
               /\ UNCHANGED sio
  /\ steps' = IF caller = "run_task" /\ attempts = 0 THEN Append(steps, "connect") ELSE steps
  /\ UNCHANGED <<clientVars, registered, checkers, mwVars, init_cmd>>
  /\ UNCHANGED <<caller, call, exc, run, result, calls>>

\* the DELETE of a handler counts for the run_task call it runs inside
RunAfterCallback == IF caller = "run_task" THEN CountDelete(run) ELSE run

\* what self.disconnect() of a connect_error handler ends with: the method of
\* the class the client was built from
HandlerExc(o) == IF caller = "base_register" THEN BaseDisconnectExc ELSE DisconnectExc(o)

\* data_connect_error_callback / control_connect_error_callback: self.disconnect();
\* an exception of the handler leaves connect and register
ConnectErrorCallback ==
  /\ pc = "connect_error"
  /\ base.callbacks > 0
  /\ \E o \in DeleteOutcomes :
       /\ IF caller = "base_register" THEN BaseDisconnectEffect ELSE DisconnectEffect(o)
       /\ IF HandlerExc(o) = NoExc
          THEN /\ base' = [base EXCEPT !.callbacks = @ - 1]
               /\ run' = RunAfterCallback
               /\ UNCHANGED <<pc, exc, result, caller, call, attempts, elapsed>>
          ELSE RegisterThrow(HandlerExc(o), RunAfterCallback)
  /\ UNCHANGED <<clientVars, issued, planReqs, init_cmd, steps, calls>>

\* variant: wait_until_available is not consulted
ConnectGivesUp_IgnoresWait(b, t) ==
  IF ~b.timeout_is_int THEN "TypeError"
  ELSE IF b.wait_timeout > 0 /\ b.wait_timeout < t THEN "raise"
  ELSE "retry"

\* variant: a wait_timeout of zero is a time limit too
ConnectGivesUp_ZeroExpires(b, t) ==
  IF ~b.wait_until_available THEN "raise"
  ELSE IF ~b.timeout_is_int THEN "TypeError"
  ELSE IF b.wait_timeout >= 0 /\ b.wait_timeout < t THEN "raise"
  ELSE "retry"

\* variant: a positive wait_timeout gives up at the first failure
ConnectGivesUp_AnyTimeout(b, t) ==
  IF ~b.wait_until_available THEN "raise"
  ELSE IF ~b.timeout_is_int THEN "TypeError"
  ELSE IF b.wait_timeout > 0 THEN "raise"
  ELSE "retry"

\* variant: the clock is never compared with wait_timeout
ConnectGivesUp_NeverExpires(b, t) ==
  IF ~b.wait_until_available THEN "raise"
  ELSE IF ~b.timeout_is_int THEN "TypeError"
  ELSE "retry"

\* line 152: `not wait_until_available or (wait_timeout > 0 and
\* start_time + wait_timeout < time.time())`: "raise", "retry", or "TypeError"
\* when wait_timeout is not a number
ConnectGivesUp(b, t) ==
  IF ~b.wait_until_available THEN "raise"
  ELSE IF ~b.timeout_is_int THEN "TypeError"
  ELSE IF b.wait_timeout > 0 /\ b.wait_timeout < t THEN "raise"
  ELSE "retry"

\* lines 150-155: the except ConnectionError clause of the retry loop
ConnectFailed ==
  /\ pc = "connect_error"
  /\ base.callbacks = 0
  /\ LET d == ConnectGivesUp(base, elapsed) IN
     IF d = "raise" THEN RegisterThrow(Exc("FailedToConnect", "ConnectionError"), run)
     ELSE IF d = "TypeError" THEN RegisterThrow(Exc("TypeError", ""), run)
     ELSE /\ elapsed' = elapsed + 1
          /\ pc' = "connect"
          /\ UNCHANGED <<exc, result, caller, call, base, attempts, run>>
  /\ UNCHANGED <<clientVars, sioVars, checkers, mwVars, init_cmd>>
  /\ UNCHANGED <<steps, calls>>

\* what self._sio.call can give back for the INIT command: a (success, message)
\* result, or no answer in time
InitOutcomes ==
  {[answered |-> TRUE, success |-> TRUE, message |-> "ok"],
   [answered |-> TRUE, success |-> FALSE, message |-> "m1"],
   [answered |-> FALSE, success |-> FALSE, message |-> ""]}

InitFailMsg(message) == "Failed to initialize the network application: " \o message

\* ControlCommand(ControlCmdType.INIT, clear_queue=False, data=args)
ControlCommand(b) == b.args

\* variant: the success flag is ignored
InitRaises_Never(r) == FALSE

\* lines 160-164: `initialized, message = ...; if not initialized: raise`
InitRaises(r) == ~r.success

\* variant: the command is emitted and the call returns at once
CommandBlocks_Emit == FALSE

\* send_control_command, line 235: self._sio.call waits for the outcome
CommandBlocks == TRUE

\* lines 160-162: send the INIT command over the control namespace
SendInit ==
  /\ pc = "init"
  /\ init_cmd' = [data |-> ControlCommand(base), answered |-> FALSE, success |-> FALSE,
                  message |-> "", outstanding |-> init_cmd.outstanding + 1]
  /\ steps' = IF caller = "run_task" THEN Append(steps, "init") ELSE steps
  /\ IF CommandBlocks
     THEN /\ pc' = "init_wait"
          /\ UNCHANGED <<frameVars, run, registered>>
     ELSE /\ RegisterReturn(run)
          /\ UNCHANGED registered
  /\ UNCHANGED <<clientVars, sio, checkers, mwVars, calls>>

\* variant: a rejected or unanswered INIT command closes the connection
InitResult_ClosesOnFailure ==
  /\ pc = "init_wait"
  /\ \E r \in InitOutcomes :
       /\ init_cmd' = [init_cmd EXCEPT !.answered = r.answered, !.success = r.success,
                                       !.message = r.message, !.outstanding = @ - 1]
       /\ IF ~r.answered
          THEN /\ RegisterThrow(Exc("TimeoutError", ""), run)
               /\ sio' = "disconnected"
               /\ UNCHANGED registered
          ELSE IF InitRaises(r)
          THEN /\ RegisterThrow(Exc("FailedToInitialize", InitFailMsg(r.message)), run)
               /\ sio' = "disconnected"
               /\ UNCHANGED registered
          ELSE /\ registered' = TRUE
               /\ RegisterReturn(run)
               /\ UNCHANGED sio
  /\ UNCHANGED <<clientVars, checkers, mwVars, steps, calls>>

\* lines 162-164: the outcome of the INIT command reaches the waiting call,
\* `initialized, message = ...; if not initialized: raise`
InitResult ==
  /\ pc = "init_wait"
  /\ \E r \in InitOutcomes :
       /\ init_cmd' = [init_cmd EXCEPT !.answered = r.answered, !.success = r.success,
                                       !.message = r.message, !.outstanding = @ - 1]
       /\ IF ~r.answered
          THEN /\ RegisterThrow(Exc("TimeoutError", ""), run)
               /\ UNCHANGED registered
          ELSE IF InitRaises(r)
          THEN /\ RegisterThrow(Exc("FailedToInitialize", InitFailMsg(r.message)), run)
               /\ UNCHANGED registered
          ELSE /\ registered' = TRUE
               /\ RegisterReturn(run)
  /\ UNCHANGED <<clientVars, sio, checkers, mwVars, steps, calls>>

\* ------------------------------------------------ a client of the base class
\* the values wait_timeout is given: negative (the default -1), zero, positive
WaitTimeouts == -1..MaxTimeout

\* the caller calls NetAppClientBase.register(netapp_address, args,
\* wait_until_available, wait_timeout), lines 138-140
BaseRegisterCall ==
  /\ CanCall
  /\ NewCall
  /\ \E a \in ArgsValues, w \in BOOLEAN, t \in WaitTimeouts :
       /\ call' = [op |-> "base_register", mode |-> DO_NOTHING, gstreamer |-> FALSE,
                   ws_data |-> FALSE, args |-> a, timeout |-> 0]
       /\ base' = [args |-> a, wait_until_available |-> w, timeout_is_int |-> TRUE,
                   wait_timeout |-> t, callbacks |-> 0]
  /\ netapp_address' = NetAppLocation(Url, NETAPP_PORT)
  /\ caller' = "base_register"
  /\ pc' = "connect"
  /\ result' = NoResult
  /\ attempts' = 0
  /\ elapsed' = 0
  /\ UNCHANGED <<middleware_info, token, action_plan_id, resource_checker, netapp_location>>
  /\ UNCHANGED <<sioVars, checkers, mwVars, init_cmd, exc>>

\* the caller calls NetAppClientBase.disconnect
BaseDisconnect ==
  /\ CanCall
  /\ NewCall
  /\ BaseDisconnectEffect
  /\ result' = IF BaseDisconnectExc = NoExc THEN Returned("disconnect")
               ELSE Raised("disconnect", BaseDisconnectExc)
  /\ UNCHANGED <<clientVars, issued, planReqs, regVars>>
  /\ UNCHANGED <<pc, caller, call, exc>>

Next ==
  \/ ConnectToMiddleware
  \/ RunTaskCall
  \/ RtPlan
  \/ RtMonitor
  \/ RtWait
  \/ RtLoad
  \/ RtExcept
  \/ RegisterCall
  \/ RegCheck
  \/ Connect
  \/ ConnectErrorCallback
  \/ ConnectFailed
  \/ SendInit
  \/ InitResult
  \/ Disconnect
  \/ DeleteAllResources
  \/ LoadNetappUri
  \/ MonitorTick

Spec == Init /\ [][Next]_vars

\* -------------------------------------------- a monitor used on its own
\* the timeouts wait_until_resource_ready is given; 0 stands for none
WaitLimits == 0..MaxTimeout

\* a MiddlewareResourceChecker is created for a plan and started
MonitorCreate ==
  /\ CanCall
  /\ NewCall
  /\ checkers = <<>>
  /\ checkers' = <<checker_start(NewChecker(Token, "p1"))>>
  /\ resource_checker' = 1
  /\ result' = Returned("start")
  /\ UNCHANGED <<middleware_info, token, action_plan_id, netapp_location, netapp_address>>
  /\ UNCHANGED <<sioVars, mwVars, regVars, pc, caller, call, exc>>

\* the monitor thread takes one polling tick, whose answer is logged
MonitorPoll ==
  /\ resource_checker # 0
  /\ checker_polls(checkers[resource_checker])
  /\ Len(checkers[resource_checker].polls) < MaxPolls
  /\ \E poll \in PollResults :
       checkers' = [checkers EXCEPT ![resource_checker] =
                      [checker_tick(@, poll) EXCEPT !.polls = Append(@, poll)]]
  /\ UNCHANGED <<clientVars, sioVars, mwVars, regVars>>
  /\ UNCHANGED <<pc, caller, call, exc, steps, run, result, calls>>

\* another thread calls stop(), at any moment
MonitorStop ==
  /\ resource_checker # 0
  /\ checkers' = [checkers EXCEPT ![resource_checker] = checker_stop(@)]
  /\ UNCHANGED <<clientVars, sioVars, mwVars, regVars>>
  /\ UNCHANGED <<pc, caller, call, exc, steps, run, result, calls>>

\* the foreground calls wait_until_resource_ready(timeout)
WaitCall ==
  /\ CanCall
  /\ NewCall
  /\ resource_checker # 0
  /\ \E t \in WaitLimits :
       call' = [NoCall EXCEPT !.op = "wait_until_resource_ready", !.timeout = t]
  /\ caller' = "wait"
  /\ pc' = "mon_wait"
  /\ result' = NoResult
  /\ UNCHANGED <<clientVars, sioVars, checkers, mwVars, regVars, exc>>

\* variant: the timeout is not consulted
wait_outcome_NoLimit(c, t, waited) == wait_until_resource_ready(c)

\* wait_until_resource_ready(timeout): a wait that is still blocked when the
\* timeout has passed raises
wait_outcome(c, t, waited) ==
  IF wait_until_resource_ready(c) = "block" /\ t > 0 /\ waited >= t THEN "raise"
  ELSE wait_until_resource_ready(c)

\* the waiting call looks at the monitor: it returns, raises NetAppNotReady,
\* or waits another second of its timeout
WaitStep ==
  /\ pc = "mon_wait"
  /\ LET o == wait_outcome(checkers[resource_checker], call.timeout, elapsed) IN
     IF o = "return" THEN Finish(Returned("wait_until_resource_ready"))
     ELSE IF o = "raise"
     THEN Finish(Raised("wait_until_resource_ready", Exc("NetAppNotReady", "wait")))
     ELSE /\ call.timeout > 0
          /\ elapsed <= MaxTimeout
          /\ elapsed' = elapsed + 1
          /\ UNCHANGED <<pc, result, caller, call, exc, base, attempts>>
  /\ UNCHANGED <<clientVars, sioVars, checkers, mwVars, init_cmd, steps, run, calls>>

\* the foreground calls is_ready()
IsReadyCall ==
  /\ CanCall
  /\ NewCall
  /\ resource_checker # 0
  /\ result' = Returned("is_ready")
  /\ UNCHANGED <<clientVars, sioVars, checkers, mwVars, regVars>>
  /\ UNCHANGED <<pc, caller, call, exc>>

MonitorNext ==
  \/ MonitorCreate
  \/ MonitorPoll
  \/ MonitorStop
  \/ WaitCall
  \/ WaitStep
  \/ IsReadyCall

MonitorSpec == Init /\ [][MonitorNext]_vars

\* the waiting thread keeps running: it wakes when the state changes and
\* when a second of its timeout has passed
MonitorLiveSpec == MonitorSpec /\ WF_vars(WaitStep)

\* a client built from NetAppClientBase, driven through its own methods
BaseNext ==
  \/ BaseRegisterCall
  \/ Connect
  \/ ConnectErrorCallback
  \/ ConnectFailed
  \/ SendInit
  \/ InitResult
  \/ BaseDisconnect

BaseSpec == Init /\ [][BaseNext]_vars

\* the calling thread keeps running: an attempt ends, a handler returns, the
\* sleep of the retry loop ends
BaseLiveSpec ==
  BaseSpec /\ WF_vars(Connect) /\ WF_vars(ConnectErrorCallback) /\ WF_vars(ConnectFailed)
\* ================================================================== claims
IsPrefix(a, b) == Len(a) <= Len(b) /\ a = SubSeq(b, 1, Len(a))
Contains(q, x) == \E i \in 1..Len(q) : q[i] = x

\* the step in which an exception of kind k is raised out of register or into
\* the except clause of run_task
RaisedKind(k) ==
  \/ pc' = "idle" /\ result'.status = "raised" /\ result'.exc.kind = k
  \/ pc' = "rt_except" /\ exc'.kind = k

\* the same, for the exception e itself
RaisedExc(e) ==
  \/ pc' = "idle" /\ result'.status = "raised" /\ result'.exc = e
  \/ pc' = "rt_except" /\ exc' = e

\* the step is a call of delete_all_resources / of disconnect by the caller
IsDeleteCall ==
  pc = "idle" /\ pc' = "idle" /\ calls' = calls + 1 /\ result'.op = "delete_all_resources"
IsDisconnectCall ==
  pc = "idle" /\ pc' = "idle" /\ calls' = calls + 1 /\ result'.op = "disconnect"
\* the step is a connect_error handler running disconnect
IsCallbackStep == pc = "connect_error" /\ base.callbacks > 0 /\ (pc' # pc \/ base' # base)

\* C1: a run_task call that obtained a plan handle and then ended with an
\* exception has issued a compensating DELETE before the exception reached the
\* caller.
C1_DeleteBeforeRaise == (run.ended = "raised" /\ run.plan # None) => run.deletes >= 1

\* C2: when the plan request succeeded, the monitor ended in Failed and the
\* wait step ran, the wait step raised NetAppNotReady and exactly one DELETE has
\* been issued for that plan, and the step that follows the end of run_task
\* issues no second one.
C2_DeleteExactlyOnce ==
  [][(/\ run.ended \in {"returned", "raised"}
      /\ run.plan # None
      /\ run.checker # 0
      /\ Contains(steps, "wait")
      /\ checkers[run.checker].state = "Failed")
     => (/\ run.raised.kind = "NetAppNotReady"
         /\ deleteReqs[run.plan] = 1
         /\ deleteReqs'[run.plan] = 1)]_vars

\* C3: the exception a failed run_task ends with is the one first raised inside
\* its try block, also when the compensating delete fails.
C3_OriginalErrorPropagates == run.ended = "raised" => run.propagated = run.raised

\* C4: a call of delete_all_resources made while the middleware has never
\* returned a plan handle sends no DELETE, raises nothing and changes no client
\* state.
C4_NoOpWithoutPlan ==
  [][(IsDeleteCall /\ issued = {})
       => (/\ deleteReqs' = deleteReqs
           /\ result'.status = "returned"
           /\ UNCHANGED clientVars)]_vars

\* how the DELETE request itself can fail
TransportFailures == {Exc("FailedToConnect", CleanupMsg), Exc("ConnectionError", "")}

C6_DisconnectCleansUp ==
  [][(IsDisconnectCall \/ IsCallbackStep)
       => (/\ sio' = "disconnected"
           /\ (resource_checker # 0 => checkers'[resource_checker].stopped)
           /\ ((token # None /\ action_plan_id # None)
                 => deleteReqs'[action_plan_id] = deleteReqs[action_plan_id] + 1))]_vars

\* C6 witness: disconnect after a run_task whose application became ready:
\* the monitor is stopped and the one DELETE of its plan was sent
C6_Witness ==
  /\ result.op = "disconnect"
  /\ sio = "disconnected"
  /\ resource_checker # 0
  /\ checkers[resource_checker].state = "Ready"
  /\ checkers[resource_checker].stopped
  /\ action_plan_id = checkers[resource_checker].plan
  /\ deleteReqs[action_plan_id] = 1

\* the steps of the longest mode, and how many of them each mode performs
FullSteps == <<"plan", "monitor", "wait", "load", "connect", "init">>
StepCount(m) == IF m = WAIT_AND_REGISTER THEN 6 ELSE IF m = WAIT THEN 4 ELSE 2
StepsOf(m) == SubSeq(FullSteps, 1, StepCount(m))

\* C7: the steps a run_task call performs are a prefix of the steps of its
\* mode, all of them when it returns; the modes' steps are the first two, the
\* first four and all six of one sequence.
C7_ModesArePrefixes ==
  run.ended # "none"
  => (/\ IsPrefix(steps, StepsOf(run.mode))
      /\ (run.ended = "returned" => steps = StepsOf(run.mode)))

\* C7 witness: a run_task in WAIT mode returned after its four steps
C7_Witness == run.ended = "returned" /\ run.mode = WAIT /\ Len(steps) = 4

\* C8: every monitor was created for a non-empty plan id the middleware had
\* returned, and a run_task call whose plan request failed or came back empty
\* created none.
C8_MonitorNeedsPlan ==
  /\ \A i \in 1..Len(checkers) : checkers[i].plan \in issued
  /\ (resource_checker # 0 => checkers[resource_checker].plan \in PlanIds)
  /\ (run.plan = None => run.checker = 0)
  /\ (pc \in {"rt_monitor", "rt_wait", "rt_load"} => action_plan_id \in issued)

\* C8 witness: a run_task got an empty plan id while an earlier monitor exists
C8_Witness ==
  /\ run.ended = "raised"
  /\ run.plan = None
  /\ action_plan_id = EmptyPlan
  /\ Len(checkers) = 1
  /\ resource_checker = 1

\* C9: register refuses with NetAppNotReady, without a connection attempt or an
\* INIT command, unless the monitor is ready; every connection attempt is made
\* while the monitor is ready.
C9_ReadyBeforeRegister ==
  [][/\ (pc = "reg_check" /\ pc' # pc /\ ~CheckerReady)
          => (/\ RaisedKind("NetAppNotReady")
              /\ attempts' = attempts
              /\ sio' = sio
              /\ init_cmd' = init_cmd)
     /\ (attempts' > attempts \/ (sio' = "connected" /\ sio # "connected"))
          => CheckerReady]_vars

\* C9 witness: register was refused because the monitor is not ready
C9_Witness ==
  /\ result.op = "register"
  /\ result.exc = Exc("NetAppNotReady", "Not ready.")
  /\ resource_checker # 0
  /\ ~CheckerReady
  /\ sio = "disconnected"

\* C10: the session is registered only while connected and after an INIT
\* command that succeeded; an INIT result whose success flag is false makes
\* register raise FailedToInitialize with the returned message, not registered.
C10_RegisteredAfterInit ==
  /\ [](registered => (sio = "connected" /\ init_cmd.answered /\ init_cmd.success))
  /\ [][/\ (registered' /\ ~registered) => (pc = "init_wait" /\ sio = "connected")
        /\ (pc = "init_wait" /\ pc' # pc /\ init_cmd'.answered /\ ~init_cmd'.success)
             => (/\ ~registered'
                 /\ RaisedExc(Exc("FailedToInitialize", InitFailMsg(init_cmd'.message))))]_vars

\* C10 witness: register returned and the session is registered
C10_Witness ==
  /\ registered
  /\ sio = "connected"
  /\ init_cmd.success
  /\ result = Returned("register")

\* C11: the INIT command a NetAppClient sends, from run_task in
\* WAIT_AND_REGISTER mode or from register, carries as its data the args value
\* the caller gave.
C11_InitCarriesArgs ==
  [][(pc = "init" /\ pc' = "init_wait" /\ caller \in {"run_task", "register"})
       => init_cmd'.data = call.args]_vars

\* the register call in progress retries under a positive time limit
TimedRetry == base.wait_until_available /\ base.timeout_is_int /\ base.wait_timeout > 0
\* the step in which the except clause of the retry loop decides
IsFailureHandled == pc = "connect_error" /\ base.callbacks = 0 /\ pc' # pc
\* the step in which a connection attempt succeeds
IsConnected == pc = "connect" /\ sio # "connected" /\ sio' = "connected"

\* C12: with wait_until_available false, NetAppClientBase.register makes one
\* connection attempt only; when it fails, register raises FailedToConnect
\* right away and no INIT command is sent.
C12_NoRetryWithoutWait ==
  [][/\ (pc = "connect" /\ ~base.wait_until_available /\ attempts' > attempts)
          => attempts = 0
     /\ (IsFailureHandled /\ ~base.wait_until_available)
          => (RaisedKind("FailedToConnect") /\ init_cmd' = init_cmd)]_vars

\* C12 witness: the only attempt of a register call that does not wait failed
C12_Witness ==
  /\ pc = "connect_error"
  /\ caller = "base_register"
  /\ ~base.wait_until_available
  /\ base.callbacks = 0
  /\ attempts = 1

C14_TimeoutBoundsRetries ==
  [][TimedRetry
       => (/\ (RaisedKind("FailedToConnect")
                  => (IsFailureHandled /\ elapsed > base.wait_timeout))
           /\ (IsFailureHandled /\ elapsed <= base.wait_timeout => pc' = "connect")
           /\ (IsConnected => pc' = "init"))]_vars

\* C14 witness: two attempts failed and the third succeeded within the limit
C14_Witness ==
  /\ pc = "init"
  /\ TimedRetry
  /\ attempts = 3
  /\ elapsed <= base.wait_timeout

\* C15: with wait_until_available true and a positive wait_timeout, the retry
\* loop ends: unless an attempt succeeds, register eventually raises
\* FailedToConnect.
C15_TimedRetryTerminates ==
  (TimedRetry /\ pc \in {"connect", "connect_error"})
    ~> (pc = "init" \/ (pc = "idle" /\ result.exc.kind = "FailedToConnect"))

\* C15 witness: every attempt failed and the time limit has passed
C15_Witness ==
  /\ pc = "connect_error"
  /\ TimedRetry
  /\ base.callbacks = 0
  /\ attempts >= 2
  /\ elapsed > base.wait_timeout

\* C16: when a failed connection attempt has been handled, and after every
\* connect_error handler, the session is disconnected and the cleanup of
\* disconnect() has run: the monitor, when there is one, is stopped.
C16_FailureDisconnects ==
  [][(IsFailureHandled \/ IsCallbackStep)
       => (/\ sio' = "disconnected"
           /\ (resource_checker # 0 => checkers'[resource_checker].stopped))]_vars

C19_ReadinessMonotonic ==
  [][/\ Len(checkers') >= Len(checkers)
     /\ \A i \in 1..Len(checkers) :
          checkers[i].state \in {"Ready", "Failed"} => checkers'[i].state = checkers[i].state
     /\ \A i \in (Len(checkers) + 1)..Len(checkers') : checkers'[i].state = "Pending"]_vars

\* C19 witness: a monitor that became Ready was stopped and kept its state,
\* and a later one ended Failed
C19_Witness ==
  /\ Len(checkers) = 2
  /\ checkers[1].state = "Ready"
  /\ checkers[1].stopped
  /\ checkers[2].state = "Failed"

\* C20: the wait step of run_task goes on to the load step only when the
\* monitor is Ready, which only a polling tick that observed Ready (and stored
\* the endpoint with it) brings about; it stays blocked while the monitor is
\* Pending and raises NetAppNotReady when it is Failed; the load step then
\* stores the observed endpoint.
C20_WaitReturnsOnReady ==
  [][/\ (pc = "rt_wait" /\ pc' = "rt_load")
          => (CheckerReady /\ checkers[resource_checker].url = Url)
     /\ (pc = "rt_wait" /\ pc' # pc /\ resource_checker # 0
            /\ checkers[resource_checker].state = "Failed")
          => RaisedKind("NetAppNotReady")
     /\ (pc = "rt_wait" /\ resource_checker # 0
            /\ checkers[resource_checker].state = "Pending")
          => pc' = pc
     /\ \A i \in 1..Len(checkers) :
          (checkers[i].state # "Ready" /\ checkers'[i].state = "Ready")
            => (checkers[i].state = "Pending" /\ checkers'[i].url = Url /\ pc' = pc)
     /\ (pc = "rt_load" /\ pc' # pc)
          => netapp_location' = NetAppLocation(Url, NETAPP_PORT)]_vars

\* C20 witness: the wait has returned on a monitor that a tick made Ready
C20_Witness ==
  /\ pc = "rt_load"
  /\ Contains(steps, "wait")
  /\ CheckerReady
  /\ checkers[resource_checker].url = Url

\* the monitor the waiting call looks at
Waited == checkers[resource_checker]

\* C21: a wait_until_resource_ready call given a positive timeout ends: it
\* never waits longer than the timeout, and when the monitor is not Ready by
\* then it raises NetAppNotReady.
C21_TimedWaitTerminates ==
  /\ [](pc = "mon_wait" /\ call.timeout > 0 => elapsed <= call.timeout)
  /\ [][(pc = "mon_wait" /\ pc' = "idle" /\ Waited.state # "Ready")
          => result'.exc = Exc("NetAppNotReady", "wait")]_vars
  /\ ((pc = "mon_wait" /\ call.timeout > 0) ~> pc = "idle")

\* C21 witness: the timeout of a wait has passed with the monitor still
\* Pending and polling
C21_Witness ==
  /\ pc = "mon_wait"
  /\ call.timeout > 0
  /\ elapsed = call.timeout
  /\ Waited.state = "Pending"
  /\ ~Waited.stopped

\* C22: a wait on a monitor that has been stopped, whether stop() came while
\* the call was blocked or before it was made, ends; unless the monitor is
\* Ready it ends with NetAppNotReady; is_ready() on a stopped monitor returns.
C22_StopReleasesWaiter ==
  /\ [][/\ (pc = "mon_wait" /\ pc' = "idle" /\ Waited.stopped /\ Waited.state # "Ready")
             => result'.exc.kind = "NetAppNotReady"
        /\ (pc = "idle" /\ resource_checker # 0 /\ result'.op = "is_ready"
               /\ calls' = calls + 1 /\ Waited.stopped)
             => (pc' = "idle" /\ result'.status = "returned")]_vars
  /\ ((pc = "mon_wait" /\ Waited.stopped) ~> pc = "idle")

\* C22 witness: a wait without timeout on a monitor that polled, is still
\* Pending and has been stopped
C22_Witness ==
  /\ pc = "mon_wait"
  /\ call.timeout = 0
  /\ Waited.stopped
  /\ Waited.state = "Pending"
  /\ Len(Waited.polls) >= 1

\* C23: a polling tick that ends in a transport error leaves the state of the
\* monitor as it was, leaves the polling running and touches nothing of the
\* foreground call; polling ends only with a failed status or with stop().
C23_TransportErrorIsTransient ==
  [][resource_checker # 0
       => (/\ (Len(Waited'.polls) > Len(Waited.polls)
                  /\ Waited'.polls[Len(Waited'.polls)] = "TransportError")
                => (/\ Waited'.state = Waited.state
                    /\ checker_polls(Waited')
                    /\ UNCHANGED <<pc, result, exc>>)
           /\ (checker_polls(Waited) /\ ~checker_polls(Waited'))
                => (Waited'.state = "Failed" \/ Waited'.stopped))]_vars

\* C23 witness: a tick failed on the transport while the monitor was Pending
\* and a later tick made it Ready
C23_Witness ==
  /\ resource_checker # 0
  /\ Len(Waited.polls) >= 2
  /\ Waited.polls[1] = "TransportError"
  /\ Waited.state = "Ready"
  /\ ~Waited.stopped

\* the step is a call of load_netapp_uri by the caller
IsLoadCall ==
  pc = "idle" /\ pc' = "idle" /\ calls' = calls + 1 /\ result'.op = "load_netapp_uri"

\* C24: load_netapp_uri, called by the caller or inside run_task, stores the
\* endpoint when the current monitor is Ready and otherwise raises
\* NetAppNotReady and stores nothing; a stored endpoint is always the one of a
\* monitor that became Ready.
C24_EndpointOnlyWhenReady ==
  /\ [](netapp_location # None
         => \E i \in 1..Len(checkers) :
              /\ checkers[i].state = "Ready"
              /\ netapp_location = NetAppLocation(checkers[i].url, NETAPP_PORT))
  /\ [][(IsLoadCall \/ (pc = "rt_load" /\ pc' # pc))
          => IF CheckerReady
             THEN netapp_location' = NetAppLocation(checkers[resource_checker].url, NETAPP_PORT)
             ELSE RaisedKind("NetAppNotReady") /\ UNCHANGED netapp_location]_vars

\* C24 witness: load_netapp_uri was refused on a monitor that is still Pending
C24_Witness ==
  /\ result = Raised("load_netapp_uri", Exc("NetAppNotReady", ""))
  /\ resource_checker # 0
  /\ checkers[resource_checker].state = "Pending"
  /\ netapp_location = None

\* the step is a call of connect_to_middleware by the caller
IsLoginCall ==
  pc = "idle" /\ pc' = "idle" /\ calls' = calls + 1 /\ result'.op = "connect_to_middleware"

\* C25: connect_to_middleware either returns with the token of the login
\* response stored, or raises FailedToConnect and stores no token; it ends
\* with no other kind of error, whatever the response and also when the
\* request does not get through.
C25_LoginFailsAsFailedToConnect ==
  [][IsLoginCall
       => \/ (result'.status = "returned" /\ token' = Token)
          \/ (result'.status = "raised" /\ result'.exc.kind = "FailedToConnect"
                /\ token' = token)]_vars

\* the exceptions gateway_get_plan raises for a response it refuses
PlanRequestErrors ==
  {Exc("FailedToConnect", m) : m \in {"Invalid response.", "response", "Could not get the plan"}}

C27_FailurePropagates ==
  /\ run.ended = "returned" => (run.raised = NoExc /\ steps = StepsOf(run.mode))
  /\ run.ended = "raised"
       => (/\ run.raised # NoExc
           /\ run.propagated = run.raised
           /\ IsPrefix(steps, StepsOf(run.mode)))

\* C28: once a run_task call that had started a monitor has ended with an
\* exception, that monitor polls no more.
C28_NoPollingAfterFailure ==
  (run.ended = "raised" /\ run.checker # 0) => ~checker_polls(checkers[run.checker])

\* C29: a client that holds a plan id holds a token, and no plan request was
\* ever sent without the token of a login that succeeded.
C29_PlanNeedsToken ==
  /\ action_plan_id # None => token # None
  /\ None \notin planReqs

\* C30: when disconnect ends, a DELETE has been issued for every plan id the
\* middleware ever returned to the client, and every monitor ever started is
\* stopped.
C30_NothingLeaked ==
  [][IsDisconnectCall
       => (/\ \A p \in issued : deleteReqs'[p] >= 1
           /\ \A i \in 1..Len(checkers) : checkers'[i].stopped)]_vars

\* C31: while a run_task or register call is in progress and has not failed,
\* no DELETE is sent and no monitor is stopped; in particular the connect_error
\* handler of a failed connection attempt does neither before the retry loop
\* has given up.
C31_NoCleanupInProgress ==
  [][(caller \in {"run_task", "register"} /\ pc # "rt_except")
       => (/\ deleteReqs' = deleteReqs
           /\ \A i \in 1..Len(checkers) : checkers'[i].stopped = checkers[i].stopped)]_vars

\* C32: when the connection was made and the INIT command is rejected, register
\* raises FailedToInitialize and leaves the connection as it is: the session is
\* connected and not registered when the call has ended, and a connected
\* session is closed by nothing but a call of disconnect.
C32_InitFailureKeepsChannels ==
  /\ []((/\ result.op = "register"
          /\ result.status = "raised"
          /\ result.exc.kind = "FailedToInitialize")
         => (sio = "connected" /\ ~registered))
  /\ [][(pc = "init_wait" /\ init_cmd'.answered /\ ~init_cmd'.success)
          => (sio = "connected" /\ sio' = "connected" /\ ~registered')]_vars
  /\ [][(sio = "connected" /\ sio' # "connected") => result'.op = "disconnect"]_vars
C32_Witness ==
  /\ pc = "idle"
  /\ result.op = "register"
  /\ result.status = "raised"
  /\ result.exc.kind = "FailedToInitialize"
  /\ init_cmd.answered /\ ~init_cmd.success
  /\ sio = "connected"
====
